---- MODULE Spec2Model ----
(***************************************************************************)
(* A model of kafkust's broker engine (src-tauri/src/infrastructure/       *)
(* kafka.rs) and of the registry it is driven from.  The broker, the       *)
(* client library and the SQLite table are the environment; every          *)
(* operator that carries a source name is a translation of that function.  *)
(***************************************************************************)
EXTENDS Integers, Sequences, FiniteSets, TLC

(***************************************************************************)
(* Bounds of the model.                                                    *)
(***************************************************************************)
MaxPartitions == 2
MaxHigh == 2
MaxMessages == 3
MaxProduced == 1
MaxFaults == 1

VARIABLES
    \* ---- the broker: one topic, its partitions and the group offsets
    topicExists,      \* the topic appears in the metadata
    numPartitions,    \* partitions of the topic
    low, high,        \* watermarks, partition -> offset
    committed,        \* consumer group -> committed offsets (or NoOffsets)
    produced,         \* records appended while a call runs
    \* ---- one consume_messages call
    pc,               \* position in consume_messages
    callNo,           \* which call this is (uuid of its group id)
    maxMessages,      \* the max_messages argument
    groupId,          \* "group.id" of the consumer
    partition_count,  \* local partition_count
    watermarks,       \* local watermarks: sequence of <<p, low, high>>
    assigned,         \* offset_tpl: partition -> start offset (or Nil)
    position,         \* consumer's fetch position per partition
    messages,         \* local messages buffer
    attempts,         \* iterations of the poll loop that polled
    errs, empties,    \* history: polls that gave Some(Err), None
    spurious,         \* history: empty polls while a record was fetchable
    bufAtErr,         \* history: the buffer when the last delivery error came
    delivered,        \* history: records poll handed out, in order
    result,           \* the call's return value
    committedAtStart, \* history: committed when the call began
    prevAssigned,     \* history: the previous call's offset_tpl
    prevSeen,         \* history: the previous call's watermarks
    \* ---- get_topic_message_count
    total_messages,   \* local total_messages
    \* ---- the offset window and create_config, taken alone
    offsetCase,       \* inputs and result of one offset-window computation
    configCase,       \* inputs and result of one create_config
    \* ---- create_topic and the broker's topics
    topics,           \* topics of the cluster: set of [name, partitions, replication]
    topicsBefore,     \* history: topics when the last create_topic began
    createCall,       \* the last create_topic: its arguments and how far it got
    createResult,     \* what it returned
    \* ---- the registry (SQLite table clusters)
    table,            \* the rows of the table
    lastSaved,        \* history: the profile of the last save_cluster
    listed,           \* what the last list_clusters returned
    \* ---- the orchestration layer and the keyring
    keyring,          \* keyring entry (cluster id) -> stored secret (or None)
    op,               \* the orchestration operation in flight (or Nil)
    deleting,         \* the delete_cluster in flight: Some(id) once its row is gone
    upd               \* history: the last update_cluster and what it found

sampleVars == <<topicExists, numPartitions, low, high, committed, produced,
                pc, callNo, maxMessages, groupId, partition_count, watermarks,
                assigned, position, messages, attempts, errs, empties, spurious,
                bufAtErr, delivered, result, committedAtStart, prevAssigned,
                prevSeen>>

usecaseVars == <<keyring, op, deleting, upd>>

nonSampleVars == <<total_messages, offsetCase, configCase, topics, topicsBefore,
                   createCall, createResult, table, lastSaved, listed, usecaseVars>>

vars == <<sampleVars, nonSampleVars>>

\* "Nothing yet" for a partition-indexed value: the empty function.
Nil == <<>>
NoOffsets == <<>>
NoResult == [ok |-> FALSE, err |-> "pending", value |-> <<>>]

Ok(v) == [ok |-> TRUE, err |-> "", value |-> v]
Err(e) == [ok |-> FALSE, err |-> e, value |-> <<>>]

Partitions == 0 .. (numPartitions - 1)

(***************************************************************************)
(* consume_messages: the configuration of the consumer (kafka.rs 196-201). *)
(***************************************************************************)
\* format!("kafkust-consumer-{}", Uuid::new_v4()): a name no other call and
\* no other application uses; the call number stands for the random uuid.
FreshGroupId(n) == <<"kafkust-consumer", n>>

EnableAutoCommitOn == TRUE
\* config.set("enable.auto.commit", "false")
EnableAutoCommit == FALSE

SharedGroups == {<<"app", 0>>}
AllGroups == SharedGroups \cup {FreshGroupId(n) : n \in 1 .. 2}

\* What the client library does with the group's offsets when the consumer is
\* dropped: with auto commit on it stores the positions, otherwise nothing.
CloseConsumer(c, gid, pos) ==
    IF EnableAutoCommit /\ pos # Nil THEN [c EXCEPT ![gid] = pos] ELSE c

(***************************************************************************)
(* The offset window (kafka.rs 231-237).                                   *)
(***************************************************************************)
SaturatingSub(a, b) == IF a >= b THEN a - b ELSE 0

StartOffsetWrapping(h, n, p) == h - (n \div p)
\* (*high as usize).saturating_sub(max_messages / partition_count as usize)
\* for a watermark h >= 0, which the cast to usize leaves as it is.
StartOffset(h, n, p) == SaturatingSub(h, n \div p)

(***************************************************************************)
(* The poll loop (kafka.rs 243-273) and the final sort (275).              *)
(***************************************************************************)
MaxAttempts == 50

CapReachedOffByOne(len, max) == len > max
\* if messages.len() >= max_messages { break; }
CapReached(len, max) == len >= max

EmptyPollAlwaysBreaks(buf) == TRUE
EmptyPollNeverBreaks(buf) == FALSE
\* None => { if messages.is_empty() { continue; } break; }
EmptyPollBreaks(buf) == buf # <<>>


DeliveryErrorBreaks == TRUE
\* Some(Err(e)) => { eprintln!(..); }: no break and no return in this arm.
DeliveryErrorEndsLoop == FALSE

TopicAlwaysFound(present) == TRUE
\* metadata.topics().iter().find(|t| t.name() == topic) is Some(..) exactly
\* when the metadata lists the topic.
FindTopic(present) == present

\* KafkaMessage, identified by its partition and offset.
KafkaMessage(p, o) == [partition |-> p, offset |-> o]

\* Insert m behind every element whose offset is >= m.offset (stable).
RECURSIVE InsertDesc(_, _)
InsertDesc(m, s) ==
    IF s = <<>> THEN <<m>>
    ELSE IF Head(s).offset >= m.offset THEN <<Head(s)>> \o InsertDesc(m, Tail(s))
    ELSE <<m>> \o s

RECURSIVE InsertAsc(_, _)
InsertAsc(m, s) ==
    IF s = <<>> THEN <<m>>
    ELSE IF Head(s).offset <= m.offset THEN <<Head(s)>> \o InsertAsc(m, Tail(s))
    ELSE <<m>> \o s

RECURSIVE SortAscending(_)
SortAscending(s) ==
    IF s = <<>> THEN <<>>
    ELSE InsertAsc(s[Len(s)], SortAscending(SubSeq(s, 1, Len(s) - 1)))

\* messages.sort_by(|a, b| b.offset.cmp(&a.offset)): a stable sort.
RECURSIVE SortByOffsetDesc(_)
SortByOffsetDesc(s) ==
    IF s = <<>> THEN <<>>
    ELSE InsertDesc(s[Len(s)], SortByOffsetDesc(SubSeq(s, 1, Len(s) - 1)))

(***************************************************************************)
(* Initial states of the sampling specification.                           *)
(***************************************************************************)
InitBroker ==
    /\ topicExists \in BOOLEAN
    /\ numPartitions \in 1 .. MaxPartitions
    \* the sampled log is not truncated: every partition starts at offset 0
    /\ low = [p \in 0 .. (numPartitions - 1) |-> 0]
    /\ high \in [0 .. (numPartitions - 1) -> 0 .. MaxHigh]
    /\ committed = [g \in AllGroups |-> IF g \in SharedGroups THEN low ELSE NoOffsets]
    /\ produced = 0

IdleCall ==
    /\ groupId = Nil
    /\ partition_count = 0
    /\ watermarks = <<>>
    /\ assigned = Nil
    /\ position = Nil
    /\ messages = <<>>
    /\ attempts = 0
    /\ errs = 0
    /\ empties = 0
    /\ spurious = 0
    /\ bufAtErr = <<>>
    /\ delivered = <<>>
    /\ result = NoResult

\* The parts of the state a specification does not exercise stay as they are here.
IdleCount == total_messages = 0

IdleOffset == offsetCase = <<>>

IdleConfig == configCase = <<>>

IdleAdmin ==
    /\ topics = {}
    /\ topicsBefore = {}
    /\ createCall = <<>>
    /\ createResult = <<>>

IdleRegistry ==
    /\ table = {}
    /\ lastSaved = <<>>
    /\ listed = <<>>

IdleUsecase ==
    /\ keyring = <<>>
    /\ op = <<>>
    /\ deleting = <<>>
    /\ upd = <<>>

InitSample ==
    /\ IdleCount /\ IdleOffset /\ IdleConfig /\ IdleAdmin /\ IdleRegistry
    /\ IdleUsecase
    /\ InitBroker
    /\ pc = "start"
    /\ callNo = 1
    /\ maxMessages \in 0 .. MaxMessages
    /\ IdleCall
    /\ committedAtStart = committed
    /\ prevAssigned = Nil
    /\ prevSeen = Nil

brokerVars == <<topicExists, numPartitions, low, high, committed, produced>>
historyVars == <<committedAtStart, prevAssigned, prevSeen>>
loopVars == <<messages, attempts, errs, empties, spurious, bufAtErr, delivered>>

\* The call ends with `r`; the consumer is dropped.
Return(r) ==
    /\ pc' = "done"
    /\ result' = r
    /\ committed' = CloseConsumer(committed, groupId, position)

(***************************************************************************)
(* consume_messages, step by step.                                         *)
(***************************************************************************)
\* 196-201: build the configuration and create the consumer.
CreateConsumer ==
    /\ pc = "start"
    /\ groupId' = FreshGroupId(callNo)
    /\ \/ pc' = "metadata" /\ UNCHANGED <<result, committed>>
       \/ /\ pc' = "done"
          /\ result' = Err("client creation failed")
          /\ UNCHANGED committed
    /\ UNCHANGED <<topicExists, numPartitions, low, high, produced, callNo,
                   maxMessages, partition_count, watermarks, assigned, position,
                   loopVars, historyVars>>
    /\ UNCHANGED nonSampleVars

\* 203-213: fetch the metadata and find the topic in it.
FetchMetadata ==
    /\ pc = "metadata"
    /\ \/ /\ FindTopic(topicExists)
          /\ partition_count' = numPartitions
          /\ pc' = "watermarks"
          /\ UNCHANGED <<result, committed>>
       \/ /\ ~FindTopic(topicExists)
          /\ Return(Err("Topic not found"))
          /\ UNCHANGED partition_count
       \/ /\ Return(Err("Failed to fetch topic metadata"))
          /\ UNCHANGED partition_count
    /\ UNCHANGED <<topicExists, numPartitions, low, high, produced, callNo,
                   maxMessages, groupId, watermarks, assigned, position,
                   loopVars, historyVars>>
    /\ UNCHANGED nonSampleVars

\* 220-229: the watermarks, one partition after the other.
FetchWatermarks ==
    /\ pc = "watermarks"
    /\ Len(watermarks) < partition_count
    /\ LET p == Len(watermarks) IN
       \/ /\ watermarks' = Append(watermarks, <<p, low[p], high[p]>>)
          /\ UNCHANGED <<pc, result, committed>>
       \/ /\ Return(Err("Failed to fetch watermarks"))
          /\ UNCHANGED watermarks
    /\ UNCHANGED <<topicExists, numPartitions, low, high, produced, callNo,
                   maxMessages, groupId, partition_count, assigned, position,
                   loopVars, historyVars>>
    /\ UNCHANGED nonSampleVars

\* 231-241: the offset window of every partition, then the static assignment.
Assign ==
    /\ pc = "watermarks"
    /\ Len(watermarks) = partition_count
    /\ \/ /\ assigned' = [p \in 0 .. (partition_count - 1) |->
                            StartOffset(watermarks[p + 1][3], maxMessages, partition_count)]
          /\ position' = assigned'
          /\ pc' = "poll"
          /\ UNCHANGED <<result, committed>>
       \/ /\ Return(Err("Failed to assign partitions"))
          /\ UNCHANGED <<assigned, position>>
    /\ UNCHANGED <<topicExists, numPartitions, low, high, produced, callNo,
                   maxMessages, groupId, partition_count, watermarks,
                   loopVars, historyVars>>
    /\ UNCHANGED nonSampleVars

Fetchable(p) == position[p] < high[p]

LoopRuns == /\ pc = "poll"
            /\ attempts < MaxAttempts
            /\ ~CapReached(Len(messages), maxMessages)

pollFrame == <<topicExists, numPartitions, low, high, produced, callNo,
               maxMessages, groupId, partition_count, watermarks, assigned,
               historyVars, result, committed, nonSampleVars>>

\* 253-262: poll delivers the next record of some partition.
PollRecord ==
    /\ LoopRuns
    /\ \E p \in 0 .. (partition_count - 1) :
          /\ Fetchable(p)
          /\ messages' = Append(messages, KafkaMessage(p, position[p]))
          /\ delivered' = Append(delivered, KafkaMessage(p, position[p]))
          /\ position' = [position EXCEPT ![p] = @ + 1]
    /\ attempts' = attempts + 1
    /\ UNCHANGED <<pc, errs, empties, spurious, bufAtErr, pollFrame>>

\* 263-265: a delivery error is logged and the loop goes on.
PollError ==
    /\ LoopRuns
    /\ errs + spurious < MaxFaults
    /\ errs' = errs + 1
    /\ bufAtErr' = messages
    /\ attempts' = attempts + 1
    /\ pc' = IF DeliveryErrorEndsLoop THEN "sort" ELSE "poll"
    /\ UNCHANGED <<messages, empties, spurious, delivered, position, pollFrame>>

\* 266-271: nothing within the timeout.
PollEmpty ==
    /\ LoopRuns
    /\ IF \E p \in 0 .. (partition_count - 1) : Fetchable(p)
       THEN errs + spurious < MaxFaults /\ spurious' = spurious + 1
       ELSE UNCHANGED spurious
    /\ empties' = empties + 1
    /\ attempts' = attempts + 1
    /\ pc' = IF EmptyPollBreaks(messages) THEN "sort" ELSE "poll"
    /\ UNCHANGED <<messages, delivered, position, errs, bufAtErr, pollFrame>>

\* 247-250: the loop ends: the cap is reached or the attempts are used up.
LoopEnds ==
    /\ pc = "poll"
    /\ attempts >= MaxAttempts \/ CapReached(Len(messages), maxMessages)
    /\ pc' = "sort"
    /\ UNCHANGED <<position, loopVars, pollFrame>>

\* 275-277: sort and return.
SortAndReturn ==
    /\ pc = "sort"
    /\ Return(Ok(SortByOffsetDesc(messages)))
    /\ UNCHANGED <<topicExists, numPartitions, low, high, produced, callNo,
                   maxMessages, groupId, partition_count, watermarks, assigned,
                   position, loopVars, historyVars>>
    /\ UNCHANGED nonSampleVars

\* A producer of some other application appends a record while the call runs
\* (within the model's bounds: before the consumer has idled for long).
Produce ==
    /\ pc \in {"metadata", "watermarks", "poll", "count_metadata", "count_loop"}
    /\ produced < MaxProduced
    /\ empties <= MaxFaults
    /\ \E p \in Partitions : high' = [high EXCEPT ![p] = @ + 1]
    /\ produced' = produced + 1
    /\ UNCHANGED <<topicExists, numPartitions, low, committed, pc, callNo,
                   maxMessages, groupId, partition_count, watermarks, assigned,
                   position, loopVars, result, historyVars>>
    /\ UNCHANGED nonSampleVars

\* Having seen a sample, the operator samples the same topic once more, with
\* the same max_messages.
NextCall ==
    /\ pc = "done"
    /\ groupId # Nil
    /\ result.ok
    /\ callNo = 1
    /\ callNo' = callNo + 1
    /\ pc' = "start"
    /\ prevAssigned' = assigned
    /\ prevSeen' = watermarks
    /\ committedAtStart' = committed
    /\ groupId' = Nil
    /\ partition_count' = 0
    /\ watermarks' = <<>>
    /\ assigned' = Nil
    /\ position' = Nil
    /\ messages' = <<>>
    /\ attempts' = 0
    /\ errs' = 0
    /\ empties' = 0
    /\ spurious' = 0
    /\ bufAtErr' = <<>>
    /\ delivered' = <<>>
    /\ result' = NoResult
    /\ UNCHANGED <<topicExists, numPartitions, low, high, committed, produced,
                   maxMessages, nonSampleVars>>

NextSample ==
    \/ CreateConsumer
    \/ FetchMetadata
    \/ FetchWatermarks
    \/ Assign
    \/ PollRecord
    \/ PollError
    \/ PollEmpty
    \/ LoopEnds
    \/ SortAndReturn
    \/ Produce
    \/ NextCall

Spec == InitSample /\ [][NextSample]_vars

(***************************************************************************)
(* Properties of consume_messages, checked under Spec.                     *)
(***************************************************************************)
Returned == pc = "done" /\ result.ok

Range(s) == {s[i] : i \in 1 .. Len(s)}

Count(s, m) == Cardinality({i \in 1 .. Len(s) : s[i] = m})

IsPermutation(s, t) ==
    /\ Len(s) = Len(t)
    /\ \A m \in Range(s) \cup Range(t) : Count(s, m) = Count(t, m)

NonIncreasingOffsets(s) ==
    \A i \in 1 .. (Len(s) - 1) : s[i].offset >= s[i + 1].offset

RECURSIVE RetainedUpTo(_)
RetainedUpTo(n) ==
    IF n = 0 THEN 0 ELSE (high[n - 1] - low[n - 1]) + RetainedUpTo(n - 1)

\* sum over the partitions of high - low
TotalRetained == RetainedUpTo(numPartitions)

\* C1: a successful consume_messages call returns at most max_messages
\* messages, whatever the polls delivered and whatever was produced meanwhile.
C1_AtMostMaxMessages ==
    Returned => Len(result.value) <= maxMessages

\* The cap cut a call short: records were produced while it ran and one is
\* still waiting to be fetched when the call returns its max_messages entries.
C1_Witness ==
    /\ Returned
    /\ maxMessages >= 2
    /\ Len(result.value) = maxMessages
    /\ produced >= 1
    /\ \E p \in Partitions : position[p] < high[p]

\* C2: the returned list is ordered by non-increasing offset and is a
\* permutation of the records the polls delivered.
C2_SortedPermutationOfPolled ==
    Returned => /\ NonIncreasingOffsets(result.value)
                /\ IsPermutation(result.value, delivered)

\* Two partitions were polled in an order that is not the returned one.
C2_Witness ==
    /\ Returned
    /\ Len(delivered) >= 3
    /\ delivered[1].offset < delivered[2].offset
    /\ \E i, j \in 1 .. Len(delivered) : delivered[i].partition # delivered[j].partition
    /\ result.value # delivered

\* C3: a call leaves the committed offsets of every consumer group as they
\* were, under a group identifier nobody else uses, and a second call on an
\* unchanged topic is assigned, and starts fetching at, the offsets of the first.
C3_NoDurableGroupState ==
    /\ committed = committedAtStart
    /\ groupId # Nil => /\ groupId \notin SharedGroups
                        /\ committedAtStart[groupId] = NoOffsets
    /\ (callNo = 2 /\ assigned # Nil /\ watermarks = prevSeen)
          => /\ assigned = prevAssigned
             /\ (pc = "poll" /\ attempts = 0) => position = prevAssigned

\* A second call on the unchanged topic has returned records it read from the
\* offsets the first call was assigned.
C3_Witness ==
    /\ callNo = 2
    /\ Returned
    /\ watermarks = prevSeen
    /\ delivered # <<>>
    /\ delivered[1].offset = prevAssigned[delivered[1].partition]
    /\ committed = committedAtStart

\* C4 (as claimed): when the topic retains fewer messages than max_messages,
\* the call returns every retained message of every partition and stops before
\* the 50 attempts are used up.  Stated for the calls the environment favours
\* most: nothing is produced meanwhile, no poll fails, none is empty early.
C4_ReturnsEveryRetainedMessage ==
    (/\ Returned
     /\ produced = 0 /\ errs = 0 /\ spurious = 0
     /\ TotalRetained < maxMessages)
    => /\ \A p \in Partitions : \A o \in low[p] .. (high[p] - 1) :
             KafkaMessage(p, o) \in Range(result.value)
       /\ attempts < MaxAttempts

AllPollsEmpty == errs = 0 /\ delivered = <<>>

\* C5 (as claimed): when every poll returns empty the call returns an empty
\* list after exactly 50 polls.
C5_EmptyAfterExactly50 ==
    (Returned /\ AllPollsEmpty) => (result.value = <<>> /\ attempts = 50)

\* C5 (amended): a call that reaches the poll loop never polls more than 50
\* times; when every poll returns empty it returns an empty list, after
\* exactly 50 polls if max_messages >= 1 and without polling if it is 0.
C5_EmptyAfterBudget ==
    /\ attempts <= 50
    /\ (Returned /\ AllPollsEmpty)
          => /\ result.value = <<>>
             /\ attempts = IF maxMessages = 0 THEN 0 ELSE 50

\* An empty topic was polled 50 times and the call returned the empty list.
C5_Witness ==
    /\ Returned
    /\ maxMessages >= 1
    /\ TotalRetained = 0
    /\ empties = 50
    /\ attempts = 50
    /\ result.value = <<>>

\* A step in which poll gave None, and one in which it gave Some(Err(e)).
EmptyPollStep == empties' = empties + 1
DeliveryErrorStep == errs' = errs + 1

\* C14: an empty poll ends the loop if and only if the buffer already holds a
\* message; an empty poll on an empty buffer leaves the loop polling (the next
\* iteration polls) unless it was the 50th attempt; no run polls more than 50
\* times.
C14_EarlyStopRule ==
    /\ [](attempts <= 50)
    /\ [][EmptyPollStep =>
             /\ (pc' = "sort") <=> (messages # <<>>)
             /\ messages = <<>> => /\ pc' = "poll"
                                   /\ attempts' < 50 => LoopRuns']_vars

\* An empty poll found the buffer empty and the loop polled on; after a record
\* had come, the next empty poll ended the loop, before the cap and before the
\* 50 attempts.
C14_Witness ==
    /\ Returned
    /\ empties >= 2
    /\ messages # <<>>
    /\ Len(messages) < maxMessages
    /\ attempts < 50
    /\ errs = 0

\* C15: a delivery error leaves the buffer as it is, does not end the loop and
\* is followed by the next attempt (unless it was the 50th), whether the buffer
\* is empty or not; a call that met one still returns successfully, with the
\* messages it had collected before the error among those it returns.
C15_DeliveryErrorNonFatal ==
    /\ [][DeliveryErrorStep =>
             /\ messages' = messages
             /\ delivered' = delivered
             /\ result' = result
             /\ pc' = "poll"
             /\ attempts' < 50 => LoopRuns']_vars
    /\ []((pc = "done" /\ errs > 0) =>
             /\ result.ok
             /\ Range(bufAtErr) \subseteq Range(result.value)
             /\ IsPermutation(result.value, delivered))

\* A delivery error came when the buffer held a message; the loop went on,
\* collected another one and the call returned both.
C15_Witness ==
    /\ Returned
    /\ errs >= 1
    /\ bufAtErr # <<>>
    /\ Len(result.value) > Len(bufAtErr)
    /\ Range(bufAtErr) \subseteq Range(result.value)

(***************************************************************************)
(* The offset window taken alone: SpecOffset draws a high watermark, a     *)
(* max_messages and a partition count and applies line 233 to them.        *)
(***************************************************************************)
OffsetMaxHigh == 100
OffsetMaxMessages == 10

InitOffset ==
    /\ offsetCase \in [high : 0 .. OffsetMaxHigh,
                       max_messages : 0 .. OffsetMaxMessages,
                       partition_count : 1 .. MaxPartitions,
                       computed : {FALSE},
                       start_offset : {0}]
    /\ IdleCount /\ IdleConfig /\ IdleAdmin /\ IdleRegistry /\ IdleUsecase
    /\ topicExists = FALSE /\ numPartitions = 1 /\ low = <<>> /\ high = <<>>
    /\ committed = <<>> /\ produced = 0 /\ pc = "idle" /\ callNo = 0
    /\ maxMessages = 0 /\ IdleCall
    /\ committedAtStart = <<>> /\ prevAssigned = Nil /\ prevSeen = Nil

\* 232-235: the start offset of one partition, as handed to add_partition_offset.
ComputeStartOffset ==
    /\ offsetCase # <<>>
    /\ ~offsetCase.computed
    /\ offsetCase' = [offsetCase EXCEPT
                        !.computed = TRUE,
                        !.start_offset = StartOffset(offsetCase.high,
                                                     offsetCase.max_messages,
                                                     offsetCase.partition_count)]
    /\ UNCHANGED <<sampleVars, total_messages, configCase, topics, topicsBefore,
                   createCall, createResult, table, lastSaved, listed, usecaseVars>>

NextOffset == ComputeStartOffset

SpecOffset == InitOffset /\ [][NextOffset]_vars

Max(a, b) == IF a >= b THEN a ELSE b

\* C6: a partition with high watermark high >= 0 is assigned at
\* max(0, high - floor(N / P)), which is never negative; high = 100, N = 10,
\* P = 2 gives 95.
C6_StartOffsetIsWindow ==
    (offsetCase # <<>> /\ offsetCase.computed) =>
       LET h == offsetCase.high
           n == offsetCase.max_messages
           p == offsetCase.partition_count
       IN /\ offsetCase.start_offset = Max(0, h - (n \div p))
          /\ offsetCase.start_offset >= 0
          /\ (h = 100 /\ n = 10 /\ p = 2) => offsetCase.start_offset = 95

\* The example of the specification has been computed.
C6_Witness ==
    /\ offsetCase # <<>>
    /\ offsetCase.computed
    /\ offsetCase.high = 100
    /\ offsetCase.max_messages = 10
    /\ offsetCase.partition_count = 2
    /\ offsetCase.start_offset = 95

(***************************************************************************)
(* Cluster profiles (domain/cluster/cluster.rs).                           *)
(***************************************************************************)
MaxClusters == 2

\* Option<String>: None, or Some(x) as the one-element sequence.
None == <<>>
Some(x) == <<x>>
Optional(x) == {None, Some(x)}

SaslMechanisms == {"Plain", "ScramSha256", "ScramSha512", "Gssapi", "OAuthBearer"}

Plaintext == [type |-> "Plaintext"]

SslConfigs ==
    [type : {"Ssl"},
     ca_location : Optional("/etc/ca.pem"),
     certificate_location : Optional("/etc/client.pem"),
     key_location : Optional("/etc/client.key"),
     key_password : Optional("keypass")]

SaslSslConfigs ==
    [type : {"SaslSsl"},
     mechanism : SaslMechanisms,
     username : {"alice"},
     ca_location : Optional("/etc/ca.pem")]

SecurityConfigs == {Plaintext} \cup SslConfigs \cup SaslSslConfigs

\* Uuid values; 0 is the nil uuid (Uuid::default()).
ClusterIds == 1 .. MaxClusters

Clusters ==
    [id : ClusterIds, name : {"dev"}, brokers : {"localhost:9092"},
     security : SecurityConfigs]

\* The wire name of a mechanism (kafka.rs 53-59, sqlite_cluster_repository.rs 63-69).
MechanismName(m) ==
    CASE m = "Plain" -> "PLAIN"
      [] m = "ScramSha256" -> "SCRAM-SHA-256"
      [] m = "ScramSha512" -> "SCRAM-SHA-512"
      [] m = "Gssapi" -> "GSSAPI"
      [] m = "OAuthBearer" -> "OAUTHBEARER"

(***************************************************************************)
(* create_config (kafka.rs 19-71).                                         *)
(***************************************************************************)
\* ClientConfig::new()
EmptyConfig == [k \in {} |-> ""]

\* config.set(k, v)
SetKey(c, k, v) == [x \in DOMAIN c \cup {k} |-> IF x = k THEN v ELSE c[x]]

\* if let Some(v) = opt { config.set(k, v); }
SetIfSome(c, k, opt) == IF opt # None THEN SetKey(c, k, opt[1]) ELSE c

SetPasswordOrEmpty(c, password) ==
    SetKey(c, "sasl.password", IF password = None THEN "" ELSE password[1])
\* 62-64: if let Some(p) = password { config.set("sasl.password", &p); }
SetPassword(c, password) == SetIfSome(c, "sasl.password", password)

CreateConfig(cluster, password) ==
    LET c0 == SetKey(EmptyConfig, "bootstrap.servers", cluster.brokers)
        sec == cluster.security
    IN CASE sec.type = "Plaintext" ->
              SetKey(c0, "security.protocol", "plaintext")
         [] sec.type = "Ssl" ->
              LET c1 == SetKey(c0, "security.protocol", "ssl")
                  c2 == SetIfSome(c1, "ssl.ca.location", sec.ca_location)
                  c3 == SetIfSome(c2, "ssl.certificate.location", sec.certificate_location)
                  c4 == SetIfSome(c3, "ssl.key.location", sec.key_location)
              IN SetIfSome(c4, "ssl.key.password", sec.key_password)
         [] sec.type = "SaslSsl" ->
              LET c1 == SetKey(c0, "security.protocol", "sasl_ssl")
                  c2 == SetKey(c1, "sasl.mechanism", MechanismName(sec.mechanism))
                  c3 == SetKey(c2, "sasl.username", sec.username)
                  c4 == SetPassword(c3, password)
              IN SetIfSome(c4, "ssl.ca.location", sec.ca_location)

Passwords == {None, Some(""), Some("s3cret")}

InitConfig ==
    /\ configCase \in [cluster : Clusters, password : Passwords,
                       built : {FALSE}, config : {EmptyConfig}]
    /\ IdleCount /\ IdleOffset /\ IdleAdmin /\ IdleRegistry /\ IdleUsecase
    /\ topicExists = FALSE /\ numPartitions = 1 /\ low = <<>> /\ high = <<>>
    /\ committed = <<>> /\ produced = 0 /\ pc = "idle" /\ callNo = 0
    /\ maxMessages = 0 /\ IdleCall
    /\ committedAtStart = <<>> /\ prevAssigned = Nil /\ prevSeen = Nil

\* One call of create_config.
BuildConfig ==
    /\ configCase # <<>>
    /\ ~configCase.built
    /\ configCase' = [configCase EXCEPT
                        !.built = TRUE,
                        !.config = CreateConfig(configCase.cluster, configCase.password)]
    /\ UNCHANGED <<sampleVars, total_messages, offsetCase, topics, topicsBefore,
                   createCall, createResult, table, lastSaved, listed, usecaseVars>>

NextConfig == BuildConfig

SpecConfig == InitConfig /\ [][NextConfig]_vars

ProtocolOf(sec) ==
    CASE sec.type = "Plaintext" -> "plaintext"
      [] sec.type = "Ssl" -> "ssl"
      [] sec.type = "SaslSsl" -> "sasl_ssl"

OptionalKeys == {"ssl.ca.location", "ssl.certificate.location", "ssl.key.location",
                 "ssl.key.password", "sasl.password"}

\* The optional inputs of the active variant, each with the key it feeds.
OptionalSources(cluster, password) ==
    LET sec == cluster.security
    IN CASE sec.type = "Plaintext" -> {}
         [] sec.type = "Ssl" ->
              {<<"ssl.ca.location", sec.ca_location>>,
               <<"ssl.certificate.location", sec.certificate_location>>,
               <<"ssl.key.location", sec.key_location>>,
               <<"ssl.key.password", sec.key_password>>}
         [] sec.type = "SaslSsl" ->
              {<<"sasl.password", password>>,
               <<"ssl.ca.location", sec.ca_location>>}

\* The keys the non-absent inputs of the active variant imply.
ImpliedKeys(cluster, password) ==
    {"bootstrap.servers", "security.protocol"}
    \cup (IF cluster.security.type = "SaslSsl"
          THEN {"sasl.mechanism", "sasl.username"} ELSE {})
    \cup {src[1] : src \in {x \in OptionalSources(cluster, password) : x[2] # None}}

\* C8: create_config sets the protocol key of the variant, emits an optional
\* key exactly when its source value is present (with that value), and emits
\* no key outside those the non-absent inputs of the active variant imply.
C8_OnlyPresentKeys ==
    (configCase # <<>> /\ configCase.built) =>
       LET cl == configCase.cluster
           pw == configCase.password
           cfg == configCase.config
       IN /\ "security.protocol" \in DOMAIN cfg
          /\ cfg["security.protocol"] = ProtocolOf(cl.security)
          /\ \A k \in OptionalKeys :
                k \in DOMAIN cfg <=>
                   \E src \in OptionalSources(cl, pw) :
                      src[1] = k /\ src[2] # None /\ cfg[k] = src[2][1]
          /\ DOMAIN cfg \subseteq ImpliedKeys(cl, pw)

\* A SASL profile built without a secret: the CA path is emitted, no password.
C8_Witness ==
    /\ configCase # <<>>
    /\ configCase.built
    /\ configCase.cluster.security.type = "SaslSsl"
    /\ configCase.password = None
    /\ configCase.cluster.security.ca_location # None
    /\ "ssl.ca.location" \in DOMAIN configCase.config
    /\ "sasl.password" \notin DOMAIN configCase.config

(***************************************************************************)
(* get_topic_message_count (kafka.rs 280-310), checked under SpecCount on  *)
(* topics whose logs may be truncated (low > 0).                           *)
(***************************************************************************)
\* The watermark values a partition of these topics may have.
CountOffsets == {0, 1, 50, 100}

InitCount ==
    /\ topicExists \in BOOLEAN
    /\ numPartitions \in 1 .. MaxPartitions
    /\ low \in [0 .. (numPartitions - 1) -> CountOffsets]
    /\ high \in [0 .. (numPartitions - 1) -> CountOffsets]
    /\ \A p \in 0 .. (numPartitions - 1) : low[p] <= high[p]
    /\ committed = [g \in AllGroups |-> NoOffsets]
    /\ produced = 0
    /\ pc = "count_start"
    /\ callNo = 1
    /\ maxMessages = 0
    /\ IdleCall
    /\ committedAtStart = committed
    /\ prevAssigned = Nil
    /\ prevSeen = Nil
    /\ total_messages = 0
    /\ IdleOffset /\ IdleConfig /\ IdleAdmin /\ IdleRegistry /\ IdleUsecase

countFrame == <<topicExists, numPartitions, low, high, committed, produced, callNo,
                maxMessages, groupId, assigned, position, loopVars, historyVars,
                offsetCase, configCase, topics, topicsBefore, createCall,
                createResult, table, lastSaved, listed, usecaseVars>>

\* 286-287: build the configuration and create the consumer.
CountCreateConsumer ==
    /\ pc = "count_start"
    /\ \/ pc' = "count_metadata" /\ UNCHANGED result
       \/ pc' = "done" /\ result' = Err("client creation failed")
    /\ UNCHANGED <<partition_count, watermarks, total_messages, countFrame>>

\* 289-299: fetch the metadata and find the topic in it.
CountFetchMetadata ==
    /\ pc = "count_metadata"
    /\ \/ /\ FindTopic(topicExists)
          /\ partition_count' = numPartitions
          /\ pc' = "count_loop"
          /\ UNCHANGED result
       \/ /\ ~FindTopic(topicExists)
          /\ pc' = "done"
          /\ result' = Err("Topic not found")
          /\ UNCHANGED partition_count
       \/ /\ pc' = "done"
          /\ result' = Err("Failed to fetch topic metadata")
          /\ UNCHANGED partition_count
    /\ UNCHANGED <<watermarks, total_messages, countFrame>>

AddHigh(total, lo, hi) == total + hi
\* 306: total_messages += high - low;
AddSpan(total, lo, hi) == total + (hi - lo)

\* 302-307: one iteration of the loop over the partitions.
CountFetchWatermarks ==
    /\ pc = "count_loop"
    /\ Len(watermarks) < partition_count
    /\ LET p == Len(watermarks) IN
       \/ /\ watermarks' = Append(watermarks, <<p, low[p], high[p]>>)
          /\ total_messages' = AddSpan(total_messages, low[p], high[p])
          /\ UNCHANGED <<pc, result>>
       \/ /\ pc' = "done"
          /\ result' = Err("Failed to fetch watermarks")
          /\ UNCHANGED <<watermarks, total_messages>>
    /\ UNCHANGED <<partition_count, countFrame>>

\* 309: Ok(total_messages)
CountReturn ==
    /\ pc = "count_loop"
    /\ Len(watermarks) = partition_count
    /\ pc' = "done"
    /\ result' = Ok(total_messages)
    /\ UNCHANGED <<partition_count, watermarks, total_messages, countFrame>>

NextCount ==
    \/ CountCreateConsumer
    \/ CountFetchMetadata
    \/ CountFetchWatermarks
    \/ CountReturn
    \/ Produce

SpecCount == InitCount /\ [][NextCount]_vars

RECURSIVE SumSpans(_)
SumSpans(w) ==
    IF w = <<>> THEN 0 ELSE (Head(w)[3] - Head(w)[2]) + SumSpans(Tail(w))

\* C9: when the topic exists and every watermark fetch succeeds,
\* get_topic_message_count returns the sum over the partitions 0..P-1 of
\* (high - low), of the watermarks as fetched; watermarks (0,100) and (0,50)
\* give 150.
C9_CountIsSumOfSpans ==
    Returned =>
       /\ Len(watermarks) = numPartitions
       /\ \A i \in 1 .. Len(watermarks) : watermarks[i][1] = i - 1
       /\ result.value = SumSpans(watermarks)
       /\ produced = 0 => result.value = TotalRetained
       /\ (numPartitions = 2 /\ produced = 0 /\ low = (0 :> 0 @@ 1 :> 0)
              /\ high = (0 :> 100 @@ 1 :> 50))
             => result.value = 150

\* The example of the specification has been counted.
C9_Witness ==
    /\ Returned
    /\ numPartitions = 2
    /\ low = (0 :> 0 @@ 1 :> 0)
    /\ high = (0 :> 100 @@ 1 :> 50)
    /\ result.value = 150

(***************************************************************************)
(* Both operations that look the topic up in the metadata, consume_messages *)
(* and get_topic_message_count, under one specification.                   *)
(***************************************************************************)
InitTopic == InitSample \/ InitCount

NextTopic == NextSample \/ NextCount

SpecTopic == InitTopic /\ [][NextTopic]_vars

\* The metadata request has been answered.
MetadataFetched ==
    /\ pc \notin {"start", "metadata", "count_start", "count_metadata"}
    /\ ~(pc = "done" /\ result.err \in {"client creation failed",
                                       "Failed to fetch topic metadata"})

\* C11: when the fetched metadata does not list the topic, consume_messages
\* and get_topic_message_count return the error "Topic not found" (and only
\* then), having fetched no watermark, assigned no partition and polled nothing.
C11_TopicNotFound ==
    /\ (MetadataFetched /\ ~topicExists) =>
          /\ pc = "done"
          /\ result = Err("Topic not found")
          /\ partition_count = 0
          /\ watermarks = <<>>
          /\ assigned = Nil
          /\ position = Nil
          /\ attempts = 0
          /\ delivered = <<>>
          /\ total_messages = 0
    /\ (pc = "done" /\ result.err = "Topic not found") => ~topicExists

\* consume_messages created its consumer, fetched the metadata of a cluster
\* that has no such topic and returned the error.
C11_Witness ==
    /\ ~topicExists
    /\ groupId # Nil
    /\ pc = "done"
    /\ result = Err("Topic not found")
    /\ watermarks = <<>>
    /\ attempts = 0

(***************************************************************************)
(* create_topic (kafka.rs 125-161) against the topics of one cluster,      *)
(* checked under SpecAdmin.                                                *)
(***************************************************************************)
MaxTopicPartitions == 2
MaxReplication == 2
\* brokers of the cluster: a replication factor above it is rejected
ClusterBrokers == 1

TopicNames == {"orders", "events"}

NewTopic(name, partitions, replication) ==
    [name |-> name, partitions |-> partitions, replication |-> replication]

\* What the broker answers to create_topics(&[new_topic]): one result per
\* requested topic, Ok(name) or Err((name, code)).
BrokerCreateTopics(ts, nt) ==
    IF \E t \in ts : t.name = nt.name
    THEN <<[ok |-> FALSE, topic |-> nt.name, code |-> "TopicAlreadyExists"]>>
    ELSE IF nt.partitions < 1
    THEN <<[ok |-> FALSE, topic |-> nt.name, code |-> "InvalidPartitions"]>>
    ELSE IF nt.replication < 1 \/ nt.replication > ClusterBrokers
    THEN <<[ok |-> FALSE, topic |-> nt.name, code |-> "InvalidReplicationFactor"]>>
    ELSE <<[ok |-> TRUE, topic |-> nt.name, code |-> "NoError"]>>

\* The topics of the cluster after the broker has handled the request.
BrokerTopicsAfter(ts, nt) ==
    IF BrokerCreateTopics(ts, nt)[1].ok THEN ts \cup {nt} ELSE ts

\* anyhow!("Failed to create topic '{}': {:?}", topic, code)
TopicErrorMessage(topic, code) == <<"Failed to create topic '", topic, "': ", code>>

\* anyhow!("Failed to create topic: {}", e)
RequestErrorMessage(e) == <<"Failed to create topic: ", e>>

CreateTopicOutcomeIgnoringErrors(results) == [ok |-> TRUE, message |-> <<>>]
\* 147-160: the first failed result is returned as the error, otherwise Ok(()).
RECURSIVE CreateTopicOutcome(_)
CreateTopicOutcome(results) ==
    IF results = <<>> THEN [ok |-> TRUE, message |-> <<>>]
    ELSE IF Head(results).ok THEN CreateTopicOutcome(Tail(results))
    ELSE [ok |-> FALSE,
          message |-> TopicErrorMessage(Head(results).topic, Head(results).code)]

InitAdmin ==
    /\ topics \in {{}, {NewTopic("orders", 1, 1)}}
    /\ topicsBefore = topics
    /\ createCall = <<>>
    /\ createResult = <<>>
    /\ IdleCount /\ IdleOffset /\ IdleConfig /\ IdleRegistry /\ IdleUsecase
    /\ topicExists = FALSE /\ numPartitions = 1 /\ low = <<>> /\ high = <<>>
    /\ committed = <<>> /\ produced = 0 /\ pc = "idle" /\ callNo = 0
    /\ maxMessages = 0 /\ IdleCall
    /\ committedAtStart = <<>> /\ prevAssigned = Nil /\ prevSeen = Nil

adminFrame == <<sampleVars, total_messages, offsetCase, configCase, table,
                lastSaved, listed, usecaseVars>>

\* The arguments of a call; `repeat`: the call before it created this name.
CallRecord(nt, answered) ==
    [name |-> nt.name, partitions |-> nt.partitions, replication |-> nt.replication,
     answered |-> answered,
     repeat |-> createCall # <<>> /\ createCall.name = nt.name /\ createResult.ok]

\* 135-136: the admin client cannot be created.
CreateTopicNoClient ==
    \E name \in TopicNames, partitions \in 0 .. MaxTopicPartitions,
       replication \in 1 .. MaxReplication :
       /\ topicsBefore' = topics
       /\ createCall' = CallRecord(NewTopic(name, partitions, replication), FALSE)
       /\ createResult' = [ok |-> FALSE, message |-> <<"client creation failed">>]
       /\ UNCHANGED <<topics, adminFrame>>

\* 142-145: the request itself fails (the broker is not reached in time).
CreateTopicRequestFails ==
    \E name \in TopicNames, partitions \in 0 .. MaxTopicPartitions,
       replication \in 1 .. MaxReplication :
       /\ topicsBefore' = topics
       /\ createCall' = CallRecord(NewTopic(name, partitions, replication), FALSE)
       /\ createResult' = [ok |-> FALSE, message |-> RequestErrorMessage("transport")]
       /\ UNCHANGED <<topics, adminFrame>>

\* 138-160: the broker answers the request.
CreateTopicAnswered ==
    \E name \in TopicNames, partitions \in 0 .. MaxTopicPartitions,
       replication \in 1 .. MaxReplication :
       LET nt == NewTopic(name, partitions, replication) IN
       /\ topicsBefore' = topics
       /\ createCall' = CallRecord(nt, TRUE)
       /\ topics' = BrokerTopicsAfter(topics, nt)
       /\ createResult' = CreateTopicOutcome(BrokerCreateTopics(topics, nt))
       /\ UNCHANGED adminFrame

NextAdmin ==
    \/ CreateTopicNoClient
    \/ CreateTopicRequestFails
    \/ CreateTopicAnswered

SpecAdmin == InitAdmin /\ [][NextAdmin]_vars

ExistedBefore == createCall # <<>> /\ \E t \in topicsBefore : t.name = createCall.name

\* C10 (as claimed): create_topic with a name that already exists returns an
\* error whose message identifies that exact topic name, and leaves the
\* existing topic unchanged.
C10_ExistingNameErrorNamesTopic ==
    ExistedBefore =>
       /\ ~createResult.ok
       /\ createCall.name \in Range(createResult.message)
       /\ topics = topicsBefore

\* C10 (amended): create_topic with a name that already exists always returns
\* an error and leaves the topics unchanged; when the broker answered the
\* request the message is "Failed to create topic '<name>': TopicAlreadyExists"
\* with that exact name, and when the client or the request itself failed it
\* is that failure's message, which does not name the topic.
C10_ExistingNameIsError ==
    ExistedBefore =>
       /\ ~createResult.ok
       /\ topics = topicsBefore
       /\ createCall.answered =>
             createResult.message =
                <<"Failed to create topic '", createCall.name, "': ", "TopicAlreadyExists">>
       /\ ~createCall.answered => createCall.name \notin Range(createResult.message)

\* A topic this program created is created again, and the broker rejects it.
C10_Witness ==
    /\ ExistedBefore
    /\ createCall.repeat
    /\ createCall.answered
    /\ ~createResult.ok
    /\ createCall.name \in Range(createResult.message)

(***************************************************************************)
(* The registry: save_cluster, list_clusters and delete_cluster of         *)
(* sqlite_cluster_repository.rs on the table clusters, under SpecRegistry. *)
(***************************************************************************)
\* Uuid::to_string
UuidToString(u) == <<"uuid", u>>

\* Uuid::parse_str(&id).unwrap_or_default(): the nil uuid for anything else
ParseUuid(str) == IF Len(str) = 2 /\ str[1] = "uuid" THEN str[2] ELSE 0

\* 43-95: the row save_cluster binds (9 columns; id is the primary key).
ClusterRow(cluster) ==
    LET sec == cluster.security
        cols == CASE sec.type = "Plaintext" ->
                       <<"plaintext", None, None, None, None, None>>
                  [] sec.type = "Ssl" ->
                       <<"ssl", None, None, sec.ca_location,
                         sec.certificate_location, sec.key_location>>
                  [] sec.type = "SaslSsl" ->
                       <<"sasl_ssl", Some(MechanismName(sec.mechanism)),
                         Some(sec.username), sec.ca_location, None, None>>
    IN [id |-> UuidToString(cluster.id),
        name |-> cluster.name,
        brokers |-> cluster.brokers,
        security_type |-> cols[1],
        sasl_mechanism |-> cols[2],
        sasl_username |-> cols[3],
        ca_location |-> cols[4],
        cert_location |-> cols[5],
        key_location |-> cols[6]]

\* 127-133: the mechanism of a row
ParseMechanism(mech_str) ==
    CASE mech_str = Some("SCRAM-SHA-256") -> "ScramSha256"
      [] mech_str = Some("SCRAM-SHA-512") -> "ScramSha512"
      [] mech_str = Some("GSSAPI") -> "Gssapi"
      [] mech_str = Some("OAUTHBEARER") -> "OAuthBearer"
      [] OTHER -> "Plain"

\* Option<String>::unwrap_or_default
UnwrapOrDefault(opt) == IF opt = None THEN "" ELSE opt[1]

\* 107-149: the Cluster list_clusters builds from a row.
RowToCluster(row) ==
    [id |-> ParseUuid(row.id),
     name |-> row.name,
     brokers |-> row.brokers,
     security |->
        CASE row.security_type = "plaintext" -> Plaintext
          [] row.security_type = "ssl" ->
               [type |-> "Ssl",
                ca_location |-> row.ca_location,
                certificate_location |-> row.cert_location,
                key_location |-> row.key_location,
                key_password |-> None]
          [] row.security_type = "sasl_ssl" ->
               [type |-> "SaslSsl",
                mechanism |-> ParseMechanism(row.sasl_mechanism),
                username |-> UnwrapOrDefault(row.sasl_username),
                ca_location |-> row.ca_location]
          [] OTHER -> Plaintext]

\* INSERT OR REPLACE INTO clusters ... : the row replaces the one of its id.
InsertOrReplace(t, row) == {r \in t : r.id # row.id} \cup {row}

\* DELETE FROM clusters WHERE id = ?
DeleteRow(t, id) == {r \in t : r.id # UuidToString(id)}

InitRegistry ==
    /\ table = {}
    /\ lastSaved = None
    /\ listed = None
    /\ IdleCount /\ IdleOffset /\ IdleConfig /\ IdleAdmin /\ IdleUsecase
    /\ topicExists = FALSE /\ numPartitions = 1 /\ low = <<>> /\ high = <<>>
    /\ committed = <<>> /\ produced = 0 /\ pc = "idle" /\ callNo = 0
    /\ maxMessages = 0 /\ IdleCall
    /\ committedAtStart = <<>> /\ prevAssigned = Nil /\ prevSeen = Nil

registryFrame == <<sampleVars, total_messages, offsetCase, configCase, topics,
                   topicsBefore, createCall, createResult, usecaseVars>>

\* save_cluster(&cluster)
SaveCluster ==
    \E cluster \in Clusters :
       /\ table' = InsertOrReplace(table, ClusterRow(cluster))
       /\ lastSaved' = Some(cluster)
       /\ listed' = None
       /\ UNCHANGED registryFrame

\* list_clusters(): every row of the table, as a Cluster.
ListClusters ==
    /\ listed' = Some({RowToCluster(row) : row \in table})
    /\ UNCHANGED <<table, lastSaved, registryFrame>>

\* delete_cluster(&id)
DeleteCluster ==
    \E id \in ClusterIds :
       /\ table' = DeleteRow(table, id)
       /\ lastSaved' = IF lastSaved # None /\ lastSaved[1].id = id
                       THEN None ELSE lastSaved
       /\ listed' = None
       /\ UNCHANGED registryFrame

NextRegistry ==
    \/ SaveCluster
    \/ ListClusters
    \/ DeleteCluster

SpecRegistry == InitRegistry /\ [][NextRegistry]_vars

\* C7 (as claimed): for a profile of any SecurityMode variant, save_cluster
\* followed by list_clusters yields a profile with the same identifier whose
\* every field equals the saved one.
C7_RoundTripEveryField ==
    (lastSaved # None /\ listed # None) =>
       \E c \in listed[1] : c.id = lastSaved[1].id /\ c = lastSaved[1]

(***************************************************************************)
(* The keyring (keyring_secret_repository.rs): one entry per cluster id.   *)
(***************************************************************************)
\* Entry::new(&self.service_name, cluster_id), with cluster_id = id.to_string()
EntryOf(id) == UuidToString(id)

KeyringEntries == {EntryOf(id) : id \in ClusterIds}

\* 24-30: the stored secret, or an error when the entry holds none or the
\* platform store fails.
GetPassword(k, id, storeOk) ==
    IF storeOk /\ k[EntryOf(id)] # None
    THEN [ok |-> TRUE, value |-> k[EntryOf(id)]]
    ELSE [ok |-> FALSE, value |-> None]

\* 15-22: entry.set_password(password)
SavePassword(k, id, password) == [k EXCEPT ![EntryOf(id)] = Some(password)]

\* 32-39: entry.delete_credential()
DeletePassword(k, id) == [k EXCEPT ![EntryOf(id)] = None]

(***************************************************************************)
(* The orchestration layer (usecase/cluster_usecase.rs).                   *)
(***************************************************************************)
\* The profiles the layer is exercised with: one without and one with SASL.
SaslProfile ==
    [type |-> "SaslSsl", mechanism |-> "Plain", username |-> "alice",
     ca_location |-> None]

UsecaseClusters == {c \in Clusters : c.security \in {Plaintext, SaslProfile}}

\* The operations that resolve a cluster before they call the broker.
OrchestrationOps ==
    {"list_topics", "check_connection", "create_topic", "publish_message",
     "consume_messages", "get_topic_message_count"}

\* The secrets a profile is added with.
Secrets == {None, Some("s3cret")}

\* What a broker operation may return.
BrokerOutcomes == {Ok(<<"answer">>), Err("broker error")}

FindAnyCluster(clusters, id) ==
    IF clusters # {} THEN Some(CHOOSE c \in clusters : TRUE) ELSE None
\* clusters.into_iter().find(|c| c.id == id)
FindCluster(clusters, id) ==
    IF \E c \in clusters : c.id = id
    THEN Some(CHOOSE c \in clusters : c.id = id)
    ELSE None

ResultOkOrEmpty(r) == IF r.ok THEN r.value ELSE Some("")
\* Result::ok(): Some(v) of Ok(v), None of Err(_)
ResultOk(r) == IF r.ok THEN r.value ELSE None

ShouldSaveAnyPassword(password) == password # None
\* 95-96: if let Some(p) = password { if !p.is_empty() { .. } }
ShouldSavePassword(password) == password # None /\ password[1] # ""

InitUsecase ==
    /\ table = {}
    /\ lastSaved = None
    /\ listed = None
    /\ keyring = [e \in KeyringEntries |-> None]
    /\ op = Nil
    /\ deleting = None
    /\ upd = Nil
    /\ IdleCount /\ IdleOffset /\ IdleConfig /\ IdleAdmin
    /\ topicExists = FALSE /\ numPartitions = 1 /\ low = <<>> /\ high = <<>>
    /\ committed = <<>> /\ produced = 0 /\ pc = "idle" /\ callNo = 0
    /\ maxMessages = 0 /\ IdleCall
    /\ committedAtStart = <<>> /\ prevAssigned = Nil /\ prevSeen = Nil

usecaseFrame == <<sampleVars, total_messages, offsetCase, configCase, topics,
                  topicsBefore, createCall, createResult, lastSaved, listed>>

\* 28-35: add_cluster(cluster, password).  A failed save_cluster returns
\* before the keyring is touched; a failed save_password leaves the row.
AddCluster ==
    \E cluster \in UsecaseClusters, password \in Secrets :
    \E storeOk \in IF password = None THEN {TRUE} ELSE BOOLEAN :
       /\ table' = InsertOrReplace(table, ClusterRow(cluster))
       /\ keyring' = IF password # None /\ storeOk
                     THEN SavePassword(keyring, cluster.id, password[1])
                     ELSE keyring
       /\ upd' = Nil
       /\ UNCHANGED <<op, deleting, usecaseFrame>>

\* 93-102: update_cluster(cluster, password).
UpdateCluster ==
    \E cluster \in UsecaseClusters, password \in Passwords,
       dbOk \in BOOLEAN, storeOk \in BOOLEAN :
       LET save == dbOk /\ ShouldSavePassword(password) IN
       /\ table' = IF dbOk THEN InsertOrReplace(table, ClusterRow(cluster)) ELSE table
       /\ keyring' = IF save /\ storeOk
                     THEN SavePassword(keyring, cluster.id, password[1])
                     ELSE keyring
       /\ upd' = [cluster |-> cluster,
                  password |-> password,
                  tableBefore |-> table,
                  keyringBefore |-> keyring,
                  result |-> IF ~dbOk THEN Err("database error")
                             ELSE IF save /\ ~storeOk
                             THEN Err("Failed to save password to keyring")
                             ELSE Ok(<<>>)]
       /\ UNCHANGED <<op, deleting, usecaseFrame>>

InFlight == op # Nil /\ op.pc \in {"secret", "broker"}

\* 105: delete_cluster(id), up to the await of the registry's delete.  (When
\* the DELETE fails the call returns its error and nothing has changed.)
DeleteClusterRow ==
    /\ deleting = None
    /\ \E id \in ClusterIds :
          /\ table' = DeleteRow(table, id)
          /\ deleting' = Some(id)
          /\ op' = IF InFlight /\ op.id = id
                   THEN [op EXCEPT !.deletedSince = TRUE]
                   ELSE op
    /\ upd' = Nil
    /\ UNCHANGED <<keyring, usecaseFrame>>

\* 106-107: let _ = delete_password(..); Ok(())
DeleteClusterSecret ==
    /\ deleting # None
    /\ \E storeOk \in BOOLEAN :
          keyring' = IF storeOk THEN DeletePassword(keyring, deleting[1]) ELSE keyring
    /\ deleting' = None
    /\ upd' = Nil
    /\ UNCHANGED <<table, op, usecaseFrame>>

NewOp(kind, id) ==
    [kind |-> kind, id |-> id, pc |-> "lookup",
     rowAtLookup |-> FALSE,   \* history: the table held a row of id at the lookup
     deletedSince |-> FALSE,  \* history: the row was deleted after the lookup
     cluster |-> None, getFailed |-> FALSE, password |-> None,
     brokerCall |-> None, result |-> NoResult]

\* 42-46 (and the same lines of the other five): list the registry and find
\* the profile of id.
OpLookup ==
    /\ op = Nil
    /\ \E kind \in OrchestrationOps, id \in ClusterIds, dbOk \in BOOLEAN :
          LET found == FindCluster({RowToCluster(row) : row \in table}, id)
              call == [NewOp(kind, id) EXCEPT
                          !.rowAtLookup = \E row \in table : row.id = UuidToString(id)]
          IN op' = IF ~dbOk
                   THEN [call EXCEPT !.pc = "done", !.result = Err("database error")]
                   ELSE IF found = None
                   THEN [call EXCEPT !.pc = "done", !.result = Err("Cluster not found")]
                   ELSE [call EXCEPT !.pc = "secret", !.cluster = found]
    /\ UNCHANGED <<table, keyring, deleting, upd, usecaseFrame>>

\* 48: let password = self.secret_repo.get_password(&cluster.id.to_string()).ok();
OpGetPassword ==
    /\ op # Nil
    /\ op.pc = "secret"
    /\ \E storeOk \in BOOLEAN :
          LET got == GetPassword(keyring, op.cluster[1].id, storeOk)
          IN op' = [op EXCEPT !.pc = "broker",
                              !.getFailed = ~got.ok,
                              !.password = ResultOk(got)]
    /\ UNCHANGED <<table, keyring, deleting, upd, usecaseFrame>>

\* 50: self.kafka_infra.<operation>(&cluster, password, ..).await
OpBrokerCall ==
    /\ op # Nil
    /\ op.pc = "broker"
    /\ \E outcome \in BrokerOutcomes :
          op' = [op EXCEPT !.pc = "done",
                           !.brokerCall = Some([cluster |-> op.cluster[1],
                                                password |-> op.password,
                                                outcome |-> outcome]),
                           !.result = outcome]
    /\ UNCHANGED <<table, keyring, deleting, upd, usecaseFrame>>

\* The caller has taken the result; the next operation may be called.
OpReturn ==
    /\ op # Nil
    /\ op.pc = "done"
    /\ op' = Nil
    /\ UNCHANGED <<table, keyring, deleting, upd, usecaseFrame>>

NextUsecase ==
    \/ AddCluster
    \/ DeleteClusterRow
    \/ DeleteClusterSecret
    \/ OpLookup
    \/ OpGetPassword
    \/ OpBrokerCall
    \/ OpReturn

SpecUsecase == InitUsecase /\ [][NextUsecase]_vars

NextVault ==
    \/ AddCluster
    \/ UpdateCluster
    \/ DeleteClusterRow
    \/ DeleteClusterSecret

SpecVault == InitUsecase /\ [][NextVault]_vars

(***************************************************************************)
(* Properties of the orchestration layer.                                  *)
(***************************************************************************)
HasRow(t, id) == \E row \in t : row.id = UuidToString(id)

\* C12: the lookup is not transactional.  An operation that found the profile
\* of its id goes on, whatever delete_cluster does to that id afterwards: it
\* stays able to take its next step, calls the broker with the profile it
\* looked up and returns the broker's outcome, never "Cluster not found"; an
\* operation fails with "Cluster not found" exactly when the registry held no
\* row of the id at its lookup, and then it calls no broker.
C12_LookupNotTransactional ==
    op # Nil =>
       /\ (op.rowAtLookup /\ op.result.err # "database error") =>
             /\ op.cluster # None
             /\ op.cluster[1].id = op.id
             /\ op.result.err # "Cluster not found"
             /\ op.pc = "secret" => ENABLED OpGetPassword
             /\ op.pc = "broker" => ENABLED OpBrokerCall
             /\ op.pc = "done" =>
                   /\ op.brokerCall # None
                   /\ op.brokerCall[1].cluster = op.cluster[1]
                   /\ op.result = op.brokerCall[1].outcome
       /\ (~op.rowAtLookup /\ op.result.err # "database error") =>
             /\ op.pc = "done"
             /\ op.result = Err("Cluster not found")
       /\ (op.pc = "done" /\ op.result.err = "Cluster not found") =>
             /\ ~op.rowAtLookup
             /\ op.brokerCall = None

\* consume_messages found the profile, delete_cluster removed the row of the
\* same id, and the operation still called the broker with that profile and
\* returned its answer.
C12_Witness ==
    /\ op # Nil
    /\ op.kind = "consume_messages"
    /\ op.pc = "done"
    /\ op.deletedSince
    /\ ~HasRow(table, op.id)
    /\ op.brokerCall # None
    /\ op.brokerCall[1].cluster = op.cluster[1]
    /\ op.result.ok

\* C13: when the keyring's get fails, the operation does not return that
\* failure: it goes on to the broker call with an absent secret (no
\* sasl.password in the client configuration) and returns the broker's outcome.
C13_GetFailureIsAbsentSecret ==
    (op # Nil /\ op.getFailed) =>
       /\ op.pc \in {"broker", "done"}
       /\ op.password = None
       /\ op.pc = "broker" => ENABLED OpBrokerCall
       /\ op.pc = "done" =>
             /\ op.brokerCall # None
             /\ op.brokerCall[1].cluster = op.cluster[1]
             /\ op.brokerCall[1].password = None
             /\ "sasl.password" \notin
                   DOMAIN CreateConfig(op.brokerCall[1].cluster,
                                       op.brokerCall[1].password)
             /\ op.result \in BrokerOutcomes
             /\ op.result = op.brokerCall[1].outcome

\* check_connection of a SASL profile whose secret is in the keyring: the get
\* failed all the same, the broker was called without a secret and answered.
C13_Witness ==
    /\ op # Nil
    /\ op.kind = "check_connection"
    /\ op.pc = "done"
    /\ op.getFailed
    /\ op.cluster[1].security.type = "SaslSsl"
    /\ keyring[EntryOf(op.id)] = Some("s3cret")
    /\ op.brokerCall # None
    /\ op.brokerCall[1].password = None
    /\ op.result.ok

\* C16: update_cluster with an absent or an empty password leaves every
\* keyring entry as it was and, unless the registry's save failed, returns Ok
\* with the profile's row in the registry; the keyring changes only under a
\* non-empty password, and then the entry of that id holds it.
C16_UpdateKeepsSecret ==
    upd # Nil =>
       LET key == EntryOf(upd.cluster.id)
           pw == upd.password
           nonEmpty == pw # None /\ pw # Some("")
       IN /\ ~nonEmpty =>
                /\ keyring = upd.keyringBefore
                /\ upd.result.err # "database error" => upd.result.ok
          /\ upd.result.ok =>
                /\ ClusterRow(upd.cluster) \in table
                /\ \A row \in table : row.id = UuidToString(upd.cluster.id)
                                         => row = ClusterRow(upd.cluster)
                /\ nonEmpty => keyring[key] = pw
          /\ keyring # upd.keyringBefore =>
                /\ nonEmpty
                /\ keyring = [upd.keyringBefore EXCEPT ![key] = pw]

\* A profile stored with a secret was updated with an empty password: its row
\* was replaced by another profile's and the secret is still in the keyring.
C16_Witness ==
    /\ upd # Nil
    /\ upd.password = Some("")
    /\ upd.result.ok
    /\ upd.keyringBefore[EntryOf(upd.cluster.id)] = Some("s3cret")
    /\ keyring = upd.keyringBefore
    /\ HasRow(upd.tableBefore, upd.cluster.id)
    /\ ClusterRow(upd.cluster) \notin upd.tableBefore
    /\ ClusterRow(upd.cluster) \in table

====
